---- MODULE Spec2Model ----
(***************************************************************************)
(* A model of altgraph's Dot class (src/src/libs/altgraph/Dot.py): the     *)
(* style store (self.attr, self.nodes, self.edges), its seeding from a     *)
(* graph in the constructor, the dot-text generator iterdot, and the       *)
(* file / external-command steps of save_dot, display and save_img.        *)
(*                                                                         *)
(* A Python dict is a sequence of <<key, value>> pairs with distinct keys: *)
(* the sequence is the dict's iteration order.  The code is Python 2       *)
(* (iteritems, imap), whose dict iterates its hash table slot by slot: a   *)
(* new key lands at the position of its slot, and assigning to a key the   *)
(* dict holds moves nothing.  Node identifiers are small integers, which   *)
(* hash to themselves, so no two of them share a slot and no table is      *)
(* resized.  The keyword arguments of a call arrive as a dict in the       *)
(* order the input gives.                                                  *)
(***************************************************************************)
EXTENDS Integers, Sequences, FiniteSets, TLC

\* Node identifiers of the store specification are 1..MaxNode.
MaxNode == 2
\* edge_style adds an edge in the store specification while the store holds
\* fewer than MaxEdges edges (the constructor may make more).
MaxEdges == 1

Nodes == 1..MaxNode
\* The constructor is seeded from graphs of up to MaxNode + 1 nodes.
SeedNodes == 1..(MaxNode + 1)

\* Keyword arguments: of node_style, all_node_style and edge_style
\* (**kwargs), of style (**attr), and those the visitors return.
EmptyMap == <<>>
Dotted == << <<"style", "dotted">> >>
RedBold == << <<"color", "red">>, <<"style", "bold">> >>
AttrMaps == {EmptyMap, Dotted}
GraphAttrs == {EmptyMap, RedBold}

VARIABLES
    self,   \* the Dot object: name, attr, type, temp_dot, temp_neo, dot, dotty, neato, nodes, edges
    other,  \* a second Dot object, used by a second thread only
    args,   \* the arguments of the constructor call (seeding)
    last,   \* the last method call on self: its name, arguments and whether it raised
    out,    \* the results of the iterdot calls since the last style call (the latest two)
    files,  \* the working directory: path -> content
    call,   \* per thread: the display / save_img call in progress and its position
    log     \* per thread: the writes and os.system commands of its current call

vars == <<self, other, args, last, out, files, call, log>>

-----------------------------------------------------------------------------
(* dict *)

DictHas(d, k) == \E i \in DOMAIN d : d[i][1] = k

DictIndex(d, k) == CHOOSE i \in DOMAIN d : d[i][1] = k

DictGet(d, k) == d[DictIndex(d, k)][2]

InsertAt(s, p, e) == SubSeq(s, 1, p - 1) \o <<e>> \o SubSeq(s, p, Len(s))

\* The slot of an integer key in a table of 8 slots: hash(k) & mask.
Slot(k) == k % 8

\* d[k] = v
DictSetItem(d, k, v) ==
    IF DictHas(d, k)
    THEN [d EXCEPT ![DictIndex(d, k)] = <<k, v>>]
    ELSE InsertAt(d, 1 + Cardinality({i \in DOMAIN d : Slot(d[i][1]) < Slot(k)}), <<k, v>>)

-----------------------------------------------------------------------------
(* node_style, all_node_style, edge_style, style *)

NoError == "ok"
GraphError == "GraphError"

Result(s, e) == [self |-> s, raised |-> e]

\* A mutant of node_style: the new attributes are merged into the old ones.
node_style_merge(obj, node, kwargs) ==
    LET e == IF ~DictHas(obj.edges, node)
             THEN DictSetItem(obj.edges, node, <<>>)
             ELSE obj.edges
        old == IF DictHas(obj.nodes, node) THEN DictGet(obj.nodes, node) ELSE <<>>
        merged == kwargs \o SelectSeq(old, LAMBDA p : ~DictHas(kwargs, p[1]))
    IN  [obj EXCEPT !.edges = e, !.nodes = DictSetItem(obj.nodes, node, merged)]

\* A mutant of node_style: the node is recorded in self.nodes only.
node_style_no_edges(obj, node, kwargs) ==
    [obj EXCEPT !.nodes = DictSetItem(obj.nodes, node, kwargs)]

\* self.node_style(node, **kwargs)
node_style(obj, node, kwargs) ==
    LET e == IF ~DictHas(obj.edges, node)
             THEN DictSetItem(obj.edges, node, <<>>)
             ELSE obj.edges
    IN  [obj EXCEPT !.edges = e, !.nodes = DictSetItem(obj.nodes, node, kwargs)]

RECURSIVE all_node_style_loop(_, _, _)
all_node_style_loop(obj, keys, kwargs) ==
    IF keys = <<>> THEN obj
    ELSE all_node_style_loop(node_style(obj, Head(keys), kwargs), Tail(keys), kwargs)

\* self.all_node_style(**kwargs): node_style for every key of self.nodes.
all_node_style(obj, kwargs) ==
    all_node_style_loop(obj, [i \in DOMAIN obj.nodes |-> obj.nodes[i][1]], kwargs)

\* A mutant of edge_style: an unknown head is added instead of raising.
edge_style_lenient(obj, head, tail, kwargs) ==
    LET inner == IF DictHas(obj.edges, head) THEN DictGet(obj.edges, head) ELSE <<>>
    IN  Result([obj EXCEPT !.edges =
                   DictSetItem(obj.edges, head, DictSetItem(inner, tail, kwargs))],
               NoError)

\* self.edge_style(head, tail, **kwargs): the object, and whether GraphError
\* was raised (self.edges[head] is a KeyError).
edge_style(obj, head, tail, kwargs) ==
    IF ~DictHas(obj.edges, head)
    THEN Result(obj, GraphError)
    ELSE LET inner == DictGet(obj.edges, head)
             made == IF ~DictHas(inner, tail)
                     THEN DictSetItem(inner, tail, <<>>)
                     ELSE inner
         IN  Result([obj EXCEPT !.edges =
                        DictSetItem(obj.edges, head, DictSetItem(made, tail, kwargs))],
                    NoError)

\* self.style(**attr)
style(obj, attr) == [obj EXCEPT !.attr = attr]

-----------------------------------------------------------------------------
(* __init__ *)

\* The constructor's visitors: None, or a function that returns None for
\* the nodes (edges) in skip and the keyword arguments style for the others.
NoVisitor == [given |-> FALSE, skip |-> {}, style |-> EmptyMap]

Visit(visitor, x) ==
    IF ~visitor.given THEN [none |-> FALSE, style |-> EmptyMap]
    ELSE IF x \in visitor.skip THEN [none |-> TRUE, style |-> EmptyMap]
    ELSE [none |-> FALSE, style |-> visitor.style]

\* The object before the seeding loops.
NewDot(name, graphtype) ==
    [name |-> name, attr |-> <<>>, type |-> graphtype,
     temp_dot |-> "tmp_dot.dot", temp_neo |-> "tmp_neo.dot",
     dot |-> "dot", dotty |-> "dotty", neato |-> "neato",
     nodes |-> <<>>, edges |-> <<>>]

\* for node in nodes: the object and the set seen.
RECURSIVE InitNodes(_, _, _)
InitNodes(st, nodes, nodevisitor) ==
    IF nodes = <<>> THEN st
    ELSE LET node == Head(nodes)
             v == Visit(nodevisitor, node)
         IN  InitNodes(IF v.none THEN st
                       ELSE [obj |-> node_style(st.obj, node, v.style),
                             seen |-> st.seen \cup {node}],
                       Tail(nodes), nodevisitor)

\* for tail in ifilter(seen.__contains__, edgefn(head))
RECURSIVE InitTails(_, _, _, _, _)
InitTails(r, head, tails, seen, edgevisitor) ==
    IF tails = <<>> THEN r
    ELSE LET tail == Head(tails)
             v == Visit(edgevisitor, <<head, tail>>)
         IN  InitTails(IF r.raised # NoError \/ tail \notin seen \/ v.none THEN r
                       ELSE edge_style(r.self, head, tail, v.style),
                       head, Tail(tails), seen, edgevisitor)

\* for head in seen: a set of small integers iterates in the order of its slots.
RECURSIVE InitHeads(_, _, _, _, _)
InitHeads(r, heads, seen, edgefn, edgevisitor) ==
    IF heads = {} THEN r
    ELSE LET head == CHOOSE h \in heads : \A g \in heads : Slot(h) <= Slot(g)
         IN  InitHeads(InitTails(r, head, edgefn.fn[head], seen, edgevisitor),
                       heads \ {head}, seen, edgefn, edgevisitor)

\* A mutant of the constructor: the tails are not filtered by seen.
Dot_init_unfiltered(nodes, edgefn, nodevisitor, edgevisitor, name, graphtype) ==
    LET st == InitNodes([obj |-> NewDot(name, graphtype), seen |-> {}], nodes, nodevisitor)
    IN  IF ~edgefn.given THEN Result(st.obj, NoError)
        ELSE InitHeads(Result(st.obj, NoError), st.seen, SeedNodes, edgefn, edgevisitor)

\* Dot(nodes=..., edgefn=..., nodevisitor=..., edgevisitor=..., name=...,
\* graphtype=...).  A graph argument stands for its nodes and for the
\* edgefn that lists the tails of its out-edges.
Dot_init(nodes, edgefn, nodevisitor, edgevisitor, name, graphtype) ==
    LET st == InitNodes([obj |-> NewDot(name, graphtype), seen |-> {}], nodes, nodevisitor)
    IN  IF ~edgefn.given THEN Result(st.obj, NoError)
        ELSE InitHeads(Result(st.obj, NoError), st.seen, st.seen, edgefn, edgevisitor)

-----------------------------------------------------------------------------
(* iterdot *)

\* '%s' % node: node identifiers are integers here.
Str(node) == ToString(node)

RECURSIVE Flatten(_)
Flatten(ss) == IF ss = <<>> THEN <<>> ELSE Head(ss) \o Flatten(Tail(ss))

RECURSIVE Join(_)
Join(chunks) == IF chunks = <<>> THEN "" ELSE Head(chunks) \o Join(Tail(chunks))

\* '%s="%s";' and cpatt = '%s="%s",' over the items of an attribute dict.
AttrChunks(attr, sep) ==
    [i \in DOMAIN attr |-> attr[i][1] \o "=\"" \o attr[i][2] \o "\"" \o sep]

\* epatt
epatt == "];\n"

TitleChunks(obj) ==
    IF obj.type = "digraph" THEN <<"digraph " \o obj.name \o " {\n">>
    ELSE IF obj.type = "graph" THEN <<"graph " \o obj.name \o " {\n">>
    ELSE <<>>

NodeChunks(item) ==
    <<"\t\"" \o Str(item[1]) \o "\" [">> \o AttrChunks(item[2], ",") \o <<epatt>>

EdgeOpen(type, head, tail) ==
    IF type = "digraph"
    THEN "\t\"" \o Str(head) \o "\" -> \"" \o Str(tail) \o "\" ["
    ELSE "\t\"" \o Str(head) \o "\" -- \"" \o Str(tail) \o "\" ["

EdgeChunks(type, head, item) ==
    <<EdgeOpen(type, head, item[1])>> \o AttrChunks(item[2], ",") \o <<epatt>>

HeadChunks(type, item) ==
    Flatten([j \in DOMAIN item[2] |-> EdgeChunks(type, item[1], item[2][j])])

\* A mutant of iterdot: the edge statements come before the node statements.
iterdot_edges_first(obj) ==
    TitleChunks(obj)
    \o AttrChunks(obj.attr, ";") \o <<"\n">>
    \o Flatten([i \in DOMAIN obj.edges |-> HeadChunks(obj.type, obj.edges[i])])
    \o Flatten([i \in DOMAIN obj.nodes |-> NodeChunks(obj.nodes[i])])
    \o <<"}\n">>

\* A mutant of iterdot: an undirected edge is written tail first.
iterdot_swapped(obj) ==
    TitleChunks(obj)
    \o AttrChunks(obj.attr, ";") \o <<"\n">>
    \o Flatten([i \in DOMAIN obj.nodes |-> NodeChunks(obj.nodes[i])])
    \o Flatten([i \in DOMAIN obj.edges |->
            Flatten([j \in DOMAIN obj.edges[i][2] |->
                IF obj.type = "digraph"
                THEN EdgeChunks(obj.type, obj.edges[i][1], obj.edges[i][2][j])
                ELSE <<EdgeOpen(obj.type, obj.edges[i][2][j][1], obj.edges[i][1])>>
                     \o AttrChunks(obj.edges[i][2][j][2], ",") \o <<epatt>>])])
    \o <<"}\n">>

\* self.iterdot(): the chunks the generator yields, in order.
iterdot(obj) ==
    TitleChunks(obj)
    \o AttrChunks(obj.attr, ";") \o <<"\n">>
    \o Flatten([i \in DOMAIN obj.nodes |-> NodeChunks(obj.nodes[i])])
    \o Flatten([i \in DOMAIN obj.edges |-> HeadChunks(obj.type, obj.edges[i])])
    \o <<"}\n">>

-----------------------------------------------------------------------------
(* The arguments the constructor is called with *)

Upto(k) == [i \in 1..k |-> i]

RECURSIVE Ascending(_)
Ascending(S) ==
    IF S = {} THEN <<>>
    ELSE LET m == CHOOSE x \in S : \A y \in S : x <= y
         IN  <<m>> \o Ascending(S \ {m})

\* The edges a seeding graph over 1..K is drawn from.
EdgePool(K) == {e \in (1..K) \X (1..K) : e[1] < e[2] \/ e \in {<<1, 1>>, <<2, 1>>}}

\* edgefn of a graph with the edges E: the tails of a node's out-edges.
EdgeFn(K, E) ==
    [given |-> TRUE,
     fn |-> [h \in 1..K |-> Ascending({t \in 1..K : <<h, t>> \in E})]]

NoEdgeFn(K) == [given |-> FALSE, fn |-> [h \in 1..K |-> <<>>]]

NodeVisitors(K) ==
    {NoVisitor} \cup {[given |-> TRUE, skip |-> S, style |-> Dotted] : S \in SUBSET (1..K)}

EdgeVisitors ==
    {NoVisitor} \cup {[given |-> TRUE, skip |-> S, style |-> RedBold] : S \in {{}, {<<1, 2>>}}}

GraphTypes == {"digraph", "graph"}

InitArgs(K) ==
    {[nodes |-> Upto(k), edgefn |-> f, nodevisitor |-> nv, edgevisitor |-> ev,
      name |-> "G", graphtype |-> gt] :
        k \in 0..K,
        f \in {NoEdgeFn(K)} \cup {EdgeFn(K, E) : E \in SUBSET EdgePool(K)},
        nv \in NodeVisitors(K), ev \in EdgeVisitors, gt \in GraphTypes}

NoArgs == [nodes |-> <<>>, edgefn |-> NoEdgeFn(0), nodevisitor |-> NoVisitor,
           edgevisitor |-> NoVisitor, name |-> "G", graphtype |-> "digraph"]

Construct(a) ==
    Dot_init(a.nodes, a.edgefn, a.nodevisitor, a.edgevisitor, a.name, a.graphtype)

-----------------------------------------------------------------------------
(* The store: one Dot object and the calls on it *)

\* A call on self: old is <<m>> when the call replaced the attributes m of
\* its node or edge, and <<>> otherwise.
Call(op, a, b, old, raised) ==
    [op |-> op, a |-> a, b |-> b, old |-> old, raised |-> raised]

Threads == {1, 2}

Paths == {"tmp_dot.dot", "tmp_neo.dot"}

NoFile == "(no such file)"

Idle == [op |-> "idle", mode |-> "", pc |-> "idle", file_name |-> "", file_type |-> ""]

RenderIdle ==
    /\ files = [p \in Paths |-> NoFile]
    /\ call = [t \in Threads |-> Idle]
    /\ log = [t \in Threads |-> <<>>]

EdgeCount(obj) == Len(Flatten([i \in DOMAIN obj.edges |-> obj.edges[i][2]]))

HasEdge(obj, head, tail) ==
    DictHas(obj.edges, head) /\ DictHas(DictGet(obj.edges, head), tail)

\* The store after a constructor call that raised nothing: any graph over
\* 1..MaxNode, any node visitor, no edge visitor.
Init ==
    /\ \E a \in InitArgs(MaxNode) :
          /\ ~a.edgevisitor.given
          /\ Construct(a).raised = NoError
          /\ self = Construct(a).self
    /\ other = NewDot("G", "digraph")
    /\ args = NoArgs
    /\ last = Call("__init__", 0, 0, <<>>, NoError)
    /\ out = <<>>
    /\ RenderIdle

Style(attr) ==
    /\ self' = style(self, attr)
    /\ last' = Call("style", 0, 0, <<>>, NoError)
    /\ out' = <<>>
    /\ UNCHANGED <<other, args, files, call, log>>

NodeStyle(node, kwargs) ==
    /\ self' = node_style(self, node, kwargs)
    /\ last' = Call("node_style", node, 0,
                     IF DictHas(self.nodes, node) THEN <<DictGet(self.nodes, node)>> ELSE <<>>,
                     NoError)
    /\ out' = <<>>
    /\ UNCHANGED <<other, args, files, call, log>>

AllNodeStyle(kwargs) ==
    /\ self' = all_node_style(self, kwargs)
    /\ last' = Call("all_node_style", 0, 0, <<>>, NoError)
    /\ out' = <<>>
    /\ UNCHANGED <<other, args, files, call, log>>

EdgeStyle(head, tail, kwargs) ==
    /\ HasEdge(self, head, tail) \/ ~DictHas(self.edges, head) \/ EdgeCount(self) < MaxEdges
    /\ self' = edge_style(self, head, tail, kwargs).self
    /\ last' = Call("edge_style", head, tail,
                     IF HasEdge(self, head, tail)
                     THEN <<DictGet(DictGet(self.edges, head), tail)>> ELSE <<>>,
                     edge_style(self, head, tail, kwargs).raised)
    /\ out' = <<>>
    /\ UNCHANGED <<other, args, files, call, log>>

\* A mutant of IterDot: the generator consumes the graph attributes.
IterDotConsuming ==
    /\ out' = (IF out = <<>> THEN <<>> ELSE <<out[Len(out)]>>) \o <<iterdot(self)>>
    /\ self' = [self EXCEPT !.attr = <<>>]
    /\ last' = Call("iterdot", 0, 0, <<>>, NoError)
    /\ UNCHANGED <<other, args, files, call, log>>

\* list(self.iterdot()), also through __iter__
IterDot ==
    /\ out' = (IF out = <<>> THEN <<>> ELSE <<out[Len(out)]>>) \o <<iterdot(self)>>
    /\ last' = Call("iterdot", 0, 0, <<>>, NoError)
    /\ UNCHANGED <<self, other, args, files, call, log>>

Next ==
    \/ \E attr \in GraphAttrs : Style(attr)
    \/ \E node \in Nodes, kwargs \in AttrMaps : NodeStyle(node, kwargs)
    \/ \E kwargs \in AttrMaps : AllNodeStyle(kwargs)
    \/ \E head \in Nodes, tail \in Nodes, kwargs \in AttrMaps : EdgeStyle(head, tail, kwargs)
    \/ IterDot

Spec == Init /\ [][Next]_vars

-----------------------------------------------------------------------------
(* The constructor alone *)

SeedInit ==
    /\ args \in InitArgs(MaxNode + 1)
    /\ self = NewDot(args.name, args.graphtype)
    /\ other = NewDot("G", "digraph")
    /\ last = Call("new", 0, 0, <<>>, NoError)
    /\ out = <<>>
    /\ RenderIdle

Seed ==
    /\ last.op = "new"
    /\ self' = Construct(args).self
    /\ last' = Call("__init__", 0, 0, <<>>, Construct(args).raised)
    /\ UNCHANGED <<other, args, out, files, call, log>>

SeedNext == Seed

SeedSpec == SeedInit /\ [][SeedNext]_vars

-----------------------------------------------------------------------------
(* save_dot, display, save_img: files and external commands *)

IOError == "IOError"
Succeeded == "exit 0"
Failed == "exit 1"

Modes == {"dot", "neato"}
FileTypes == {"gif", "png"}

\* What the layout engine writes for the document it reads.
Layout(data) == "(laid out) " \o data

\* A command line is its words joined by blanks.
RECURSIVE CmdLine(_)
CmdLine(argv) ==
    IF Len(argv) = 1 THEN argv[1] ELSE argv[1] \o " " \o CmdLine(Tail(argv))

\* The file a command reads: <cmd> <in>, <cmd> -o <out> <in>, <cmd> -T<fmt> <in> -o <out>.
InputOf(argv) ==
    IF Len(argv) = 2 THEN argv[2] ELSE IF argv[2] = "-o" THEN argv[4] ELSE argv[3]

\* The exit status of a command: one that has no input file does not succeed.
StatusOf(argv, fs, status) ==
    IF InputOf(argv) \in DOMAIN fs /\ fs[InputOf(argv)] # NoFile THEN status ELSE Failed

\* os.system(cmd): the files after the command ran.  Only the layout
\* stage <cmd> -o <out> <in> writes one of the temporary files.
os_system(argv, fs, status) ==
    IF StatusOf(argv, fs, status) = Succeeded /\ Len(argv) = 4 /\ argv[2] = "-o"
    THEN [fs EXCEPT ![argv[3]] = Layout(fs[argv[4]])]
    ELSE fs

\* self.save_dot(file_name): open(file_name, "w"), write every chunk of
\* iterdot, close.  open or write may raise IOError.
save_dot(obj, file_name, fs, outcome) ==
    LET path == IF file_name = "" THEN obj.temp_dot ELSE file_name
    IN  IF outcome = "open fails" THEN [files |-> fs, raised |-> IOError]
        ELSE IF outcome = "write fails"
        THEN [files |-> [fs EXCEPT ![path] = ""], raised |-> IOError]
        ELSE [files |-> [fs EXCEPT ![path] = Join(iterdot(obj))], raised |-> NoError]

SaveOutcomes == {"written", "open fails", "write fails"}

\* A mutant of save_path: the store is saved to temp_neo in both modes.
save_path_neo(obj, mode) == obj.temp_neo

\* The file display and save_img save the store to.
save_path(obj, mode) == IF mode = "neato" THEN obj.temp_neo ELSE obj.temp_dot

\* A mutant of neato_cmd: input and output are exchanged.
neato_cmd_swapped(obj) == <<obj.neato, "-o", obj.temp_neo, obj.temp_dot>>

\* neato_cmd = "%s -o %s %s" % (self.neato, self.temp_dot, self.temp_neo)
neato_cmd(obj) == <<obj.neato, "-o", obj.temp_dot, obj.temp_neo>>

\* display: plot_cmd = "%s %s" % (self.dotty, self.temp_dot)
plot_cmd(obj) == <<obj.dotty, obj.temp_dot>>

\* save_img: create_cmd = "%s -T%s %s -o %s" % (plot_cmd, file_type, self.temp_dot, file_name)
create_cmd(obj, mode, file_name, file_type) ==
    <<IF mode = "neato" THEN obj.neato ELSE obj.dot,
      "-T" \o file_type, obj.temp_dot, "-o", file_name \o "." \o file_type>>

ObjOf(t) == IF t = 1 THEN self ELSE other

Ready(t) == call[t].pc \in {"idle", "returned", "raised"}

Event(ev, what, data, status) == [ev |-> ev, what |-> what, data |-> data, status |-> status]

\* self.display(mode) is called.
Display(t, mode) ==
    /\ Ready(t)
    /\ call' = [call EXCEPT ![t] = [op |-> "display", mode |-> mode, pc |-> "save",
                                    file_name |-> "", file_type |-> ""]]
    /\ log' = [log EXCEPT ![t] = <<>>]
    /\ UNCHANGED <<self, other, args, last, out, files>>

\* self.save_img(file_name, file_type, mode) is called.
SaveImg(t, file_name, file_type, mode) ==
    /\ Ready(t)
    /\ call' = [call EXCEPT ![t] = [op |-> "save_img", mode |-> mode, pc |-> "save",
                                    file_name |-> file_name, file_type |-> file_type]]
    /\ log' = [log EXCEPT ![t] = <<>>]
    /\ UNCHANGED <<self, other, args, last, out, files>>

\* self.save_dot(self.temp_neo) or self.save_dot(self.temp_dot)
SaveStep(t, outcome) ==
    /\ call[t].pc = "save"
    /\ LET path == save_path(ObjOf(t), call[t].mode)
           r == save_dot(ObjOf(t), path, files, outcome)
       IN  /\ files' = r.files
           /\ IF r.raised = NoError
              THEN /\ log' = [log EXCEPT ![t] = Append(@, Event("write", path, r.files[path], Succeeded))]
                   /\ call' = [call EXCEPT ![t].pc = IF call[t].mode = "neato" THEN "layout" ELSE "plot"]
              ELSE /\ log' = log
                   /\ call' = [call EXCEPT ![t].pc = "raised"]
    /\ UNCHANGED <<self, other, args, last, out>>

\* os.system(neato_cmd)
LayoutStep(t, status) ==
    /\ call[t].pc = "layout"
    /\ LET argv == neato_cmd(ObjOf(t))
       IN  /\ files' = os_system(argv, files, status)
           /\ log' = [log EXCEPT ![t] = Append(@, Event("system", CmdLine(argv),
                                   IF InputOf(argv) \in DOMAIN files THEN files[InputOf(argv)] ELSE NoFile,
                                   StatusOf(argv, files, status)))]
    /\ call' = [call EXCEPT ![t].pc = "plot"]
    /\ UNCHANGED <<self, other, args, last, out>>

\* os.system(plot_cmd) of display, os.system(create_cmd) of save_img; the call returns.
PlotStep(t, status) ==
    /\ call[t].pc = "plot"
    /\ LET argv == IF call[t].op = "display" THEN plot_cmd(ObjOf(t))
                   ELSE create_cmd(ObjOf(t), call[t].mode, call[t].file_name, call[t].file_type)
       IN  /\ files' = os_system(argv, files, status)
           /\ log' = [log EXCEPT ![t] = Append(@, Event("system", CmdLine(argv),
                                   IF InputOf(argv) \in DOMAIN files THEN files[InputOf(argv)] ELSE NoFile,
                                   StatusOf(argv, files, status)))]
    /\ call' = [call EXCEPT ![t].pc = "returned"]
    /\ UNCHANGED <<self, other, args, last, out>>

-----------------------------------------------------------------------------
(* One caller: style calls, iterdot, display and save_img, one after the other *)

RenderArgs ==
    {[nodes |-> Upto(k), edgefn |-> f, nodevisitor |-> NoVisitor, edgevisitor |-> NoVisitor,
      name |-> "G", graphtype |-> gt] :
        k \in 0..1, f \in {NoEdgeFn(1), EdgeFn(1, {<<1, 1>>})}, gt \in GraphTypes}

RenderInit ==
    /\ \E a \in RenderArgs : self = Construct(a).self
    /\ other = NewDot("G", "digraph")
    /\ args = NoArgs
    /\ last = Call("__init__", 0, 0, <<>>, NoError)
    /\ out = <<>>
    /\ RenderIdle

RenderNext ==
    \/ \E attr \in GraphAttrs : Ready(1) /\ Style(attr)
    \/ Ready(1) /\ IterDot
    \/ \E mode \in Modes : Display(1, mode)
    \/ \E file_type \in FileTypes, mode \in Modes : SaveImg(1, "out", file_type, mode)
    \/ \E outcome \in SaveOutcomes : SaveStep(1, outcome)
    \/ \E status \in {Succeeded, Failed} : LayoutStep(1, status)
    \/ \E status \in {Succeeded, Failed} : PlotStep(1, status)

RenderSpec == RenderInit /\ [][RenderNext]_vars

-----------------------------------------------------------------------------
(* Two callers, each with a Dot object of its own, in one working directory *)

RaceInit ==
    /\ self = Dot_init(<<>>, NoEdgeFn(0), NoVisitor, NoVisitor, "G", "digraph").self
    /\ other = Dot_init(<<>>, NoEdgeFn(0), NoVisitor, NoVisitor, "H", "digraph").self
    /\ args = NoArgs
    /\ last = Call("__init__", 0, 0, <<>>, NoError)
    /\ out = <<>>
    /\ RenderIdle

RaceNext ==
    \E t \in Threads :
        \/ \E mode \in Modes : Display(t, mode)
        \/ \E file_type \in FileTypes, mode \in Modes : SaveImg(t, "out", file_type, mode)
        \/ \E outcome \in SaveOutcomes : SaveStep(t, outcome)
        \/ \E status \in {Succeeded, Failed} : LayoutStep(t, status)
        \/ \E status \in {Succeeded, Failed} : PlotStep(t, status)

RaceSpec == RaceInit /\ [][RaceNext]_vars

-----------------------------------------------------------------------------
(* The claims.  What a claim expects of the text is written out here and  *)
(* not taken from the operators above.                                     *)

Declared(node) == \E i \in DOMAIN self.nodes : self.nodes[i][1] = node

Positions(chunks, c) == {i \in DOMAIN chunks : chunks[i] = c}

Quoted(node) == "\"" \o ToString(node) \o "\""

NodeStmt(node) == "\t" \o Quoted(node) \o " ["

EdgeStmt(head, connector, tail) ==
    "\t" \o Quoted(head) \o " " \o connector \o " " \o Quoted(tail) \o " ["

\* C1: edge_style(head, tail, ...) raises GraphError and changes nothing when
\* head has never been declared by node_style, and succeeds, leaving the edge
\* styled, when head has been declared, whether or not tail has been declared.
C1_EdgeStyleChecksHeadOnly ==
    [][last'.op = "edge_style" =>
          LET head == last'.a
              tail == last'.b
          IN  \A kwargs \in AttrMaps :
                  EdgeStyle(head, tail, kwargs) =>
                      /\ (~Declared(head)) => (last'.raised = GraphError /\ self' = self)
                      /\ Declared(head) =>
                            (last'.raised = NoError /\ HasEdge(self', head, tail))]_vars

\* An edge_style call has succeeded on a declared head and an undeclared tail.
C1_Witness ==
    /\ last.op = "edge_style"
    /\ last.raised = NoError
    /\ Declared(last.a)
    /\ ~Declared(last.b)
    /\ HasEdge(self, last.a, last.b)

\* C2: after node_style(n, m) the attributes stored for n are exactly m, and
\* after a successful edge_style(h, t, m) those stored for (h, t) are exactly
\* m: nothing of an earlier mapping survives.
C2_StyleCallsReplace ==
    [][/\ last'.op = "node_style" =>
            \A kwargs \in AttrMaps :
                NodeStyle(last'.a, kwargs) =>
                    \E i \in DOMAIN self'.nodes : self'.nodes[i] = <<last'.a, kwargs>>
       /\ (last'.op = "edge_style" /\ last'.raised = NoError) =>
            \A kwargs \in AttrMaps :
                EdgeStyle(last'.a, last'.b, kwargs) =>
                    \E i \in DOMAIN self'.edges :
                        /\ self'.edges[i][1] = last'.a
                        /\ \E j \in DOMAIN self'.edges[i][2] :
                              self'.edges[i][2][j] = <<last'.b, kwargs>>]_vars

\* node_style has replaced the attributes style="dotted" of a node by none.
C2_Witness ==
    /\ last.op = "node_style"
    /\ last.old = <<Dotted>>
    /\ \E i \in DOMAIN self.nodes : self.nodes[i] = <<last.a, EmptyMap>>

\* C3: the constructor declares exactly the nodes the node visitor did not
\* skip, and styles exactly the edges (head, tail) with head and tail both
\* declared, tail among edgefn(head), and not skipped by the edge visitor;
\* it raises nothing.
C3_SeedingFilters ==
    last.op = "__init__" =>
        LET kept == {args.nodes[i] : i \in DOMAIN args.nodes} \
                        (IF args.nodevisitor.given THEN args.nodevisitor.skip ELSE {})
            skipped == IF args.edgevisitor.given THEN args.edgevisitor.skip ELSE {}
        IN  /\ last.raised = NoError
            /\ {self.nodes[i][1] : i \in DOMAIN self.nodes} = kept
            /\ \A head \in SeedNodes, tail \in SeedNodes :
                  HasEdge(self, head, tail) <=>
                      /\ head \in kept
                      /\ tail \in kept
                      /\ args.edgefn.given
                      /\ \E j \in DOMAIN args.edgefn.fn[head] : args.edgefn.fn[head][j] = tail
                      /\ <<head, tail>> \notin skipped

\* Nodes 1, 2, 3 with the edges 1->2, 1->3, 2->3, node 3 skipped and no edge
\* visitor: the nodes 1 and 2 and the single edge 1->2.
C3_Witness ==
    /\ last.op = "__init__"
    /\ args.nodes = <<1, 2, 3>>
    /\ args.edgefn.given
    /\ args.edgefn.fn[1] = <<2, 3>> /\ args.edgefn.fn[2] = <<3>> /\ args.edgefn.fn[3] = <<>>
    /\ args.nodevisitor.given /\ args.nodevisitor.skip = {3}
    /\ ~args.edgevisitor.given
    /\ {self.nodes[i][1] : i \in DOMAIN self.nodes} = {1, 2}
    /\ EdgeCount(self) = 1
    /\ HasEdge(self, 1, 2)

\* C4: iterdot yields the header, the graph attributes and the end of their
\* line, one node statement per declared node, one edge statement per styled
\* edge, every node statement before every edge statement, and last the
\* closing brace; on an empty store just header, empty line, closing brace.
C4_IterdotOrder ==
    last.op = "iterdot" =>
        LET chunks == out[Len(out)]
            connector == IF self.type = "digraph" THEN "->" ELSE "--"
            nodeAt == UNION {Positions(chunks, NodeStmt(n)) : n \in SeedNodes}
            edgeAt == UNION {Positions(chunks, EdgeStmt(h, connector, t)) :
                                h \in SeedNodes, t \in SeedNodes}
            lineEnd == 2 + Len(self.attr)
        IN  /\ chunks[1] = (IF self.type = "digraph" THEN "digraph " ELSE "graph ")
                               \o self.name \o " {\n"
            /\ \A i \in DOMAIN self.attr :
                  chunks[1 + i] = self.attr[i][1] \o "=\"" \o self.attr[i][2] \o "\";"
            /\ chunks[lineEnd] = "\n"
            /\ chunks[Len(chunks)] = "}\n"
            /\ \A n \in SeedNodes :
                  Cardinality(Positions(chunks, NodeStmt(n))) = IF Declared(n) THEN 1 ELSE 0
            /\ \A h \in SeedNodes, t \in SeedNodes :
                  Cardinality(Positions(chunks, EdgeStmt(h, connector, t)))
                      = IF HasEdge(self, h, t) THEN 1 ELSE 0
            /\ \A i \in nodeAt \cup edgeAt : lineEnd < i /\ i < Len(chunks)
            /\ \A i \in nodeAt, j \in edgeAt : i < j
            /\ Cardinality(Positions(chunks, "];\n")) = Len(self.nodes) + EdgeCount(self)
            /\ (self.nodes = <<>> /\ EdgeCount(self) = 0 /\ self.attr = <<>>) =>
                  chunks = <<chunks[1], "\n", "}\n">>

\* iterdot has run on a store with graph attributes, two nodes and two edges.
C4_Witness ==
    /\ last.op = "iterdot"
    /\ self.attr # <<>>
    /\ Len(self.nodes) >= 2
    /\ EdgeCount(self) >= 2

\* C5: no step of iterdot, display or save_img changes a Dot object, and an
\* iterdot call that follows another with no style call in between yields
\* the same chunks.
C5_SerializeIdempotent ==
    [][/\ (\/ IterDot
           \/ \E t \in Threads :
                \/ \E mode \in Modes : Display(t, mode)
                \/ \E file_type \in FileTypes, mode \in Modes :
                      SaveImg(t, "out", file_type, mode)
                \/ \E outcome \in SaveOutcomes : SaveStep(t, outcome)
                \/ \E status \in {Succeeded, Failed} : LayoutStep(t, status)
                \/ \E status \in {Succeeded, Failed} : PlotStep(t, status))
          => (self' = self /\ other' = other)
       /\ (IterDot /\ out # <<>>) => (Len(out') = 2 /\ out'[1] = out'[2])]_vars

\* iterdot has run twice, after a display or save_img call that saved the
\* store, on a store with graph attributes, a node and an edge.
C5_Witness ==
    /\ last.op = "iterdot"
    /\ Len(out) = 2
    /\ call[1].pc = "returned"
    /\ self.attr # <<>> /\ self.nodes # <<>> /\ EdgeCount(self) > 0

\* C6: the chunks of a store and those of the same store of the other kind
\* are as many, and differ only in the header keyword and in the connector
\* of each edge statement.
C6_KindChangesOnlyTokens ==
    last.op = "iterdot" =>
        LET mine == out[Len(out)]
            twin == iterdot([self EXCEPT !.type = IF self.type = "digraph" THEN "graph"
                                                   ELSE "digraph"])
            d == IF self.type = "digraph" THEN mine ELSE twin
            u == IF self.type = "digraph" THEN twin ELSE mine
        IN  /\ Len(d) = Len(u)
            /\ d[1] = "digraph " \o self.name \o " {\n"
            /\ u[1] = "graph " \o self.name \o " {\n"
            /\ \A i \in 2..Len(d) :
                  \/ d[i] = u[i] /\ \A h \in SeedNodes, t \in SeedNodes :
                                       d[i] # EdgeStmt(h, "->", t) /\ d[i] # EdgeStmt(h, "--", t)
                  \/ \E h \in SeedNodes, t \in SeedNodes :
                        d[i] = EdgeStmt(h, "->", t) /\ u[i] = EdgeStmt(h, "--", t)

\* iterdot has run on an undirected store with an edge between two nodes.
C6_Witness ==
    /\ last.op = "iterdot"
    /\ self.type = "graph"
    /\ \E h \in Nodes, t \in Nodes : h # t /\ HasEdge(self, h, t)

\* The writes and commands of a call, as the claim C7 lists them.
C7_Expected(c) ==
    LET final == IF c.op = "display" THEN "dotty tmp_dot.dot"
                 ELSE (IF c.mode = "neato" THEN "neato" ELSE "dot") \o " -T" \o c.file_type
                          \o " tmp_dot.dot -o " \o c.file_name \o "." \o c.file_type
    IN  IF c.mode = "neato"
        THEN << <<"write", "tmp_neo.dot">>,
                <<"system", "neato -o tmp_dot.dot tmp_neo.dot">>,
                <<"system", final>> >>
        ELSE << <<"write", "tmp_dot.dot">>, <<"system", final>> >>

\* C7: a display or save_img call first writes the store to a temporary
\* file, then issues its commands in the order of the claim, the layout
\* command reading what was written; a failed command raises nothing and
\* the commands after it are issued all the same.  Only a failed save raises.
C7_RenderOrder ==
    LET c == call[1]
        l == log[1]
        e == C7_Expected(c)
    IN  c.op # "idle" =>
            /\ Len(l) <= Len(e)
            /\ \A i \in DOMAIN l : <<l[i].ev, l[i].what>> = e[i]
            /\ c.pc = "save" <=> (l = <<>> /\ c.pc # "raised")
            /\ c.pc = "raised" => l = <<>>
            /\ c.pc = "layout" <=> (Len(l) = 1 /\ c.mode = "neato")
            /\ c.pc = "plot" <=> (Len(l) = Len(e) - 1 /\ Len(l) > 0)
            /\ c.pc = "returned" <=> Len(l) = Len(e)
            /\ (c.mode = "neato" /\ Len(l) >= 2) => l[2].data = l[1].data

\* A save_img call with the layout engine has returned after its layout
\* command failed.
C7_Witness ==
    /\ call[1].op = "save_img" /\ call[1].mode = "neato" /\ call[1].pc = "returned"
    /\ Len(log[1]) = 3
    /\ log[1][2].status = Failed

\* C8: every head with a styled edge in self.edges is a key of self.nodes.
C8_StyledHeadsAreDeclared ==
    \A i \in DOMAIN self.edges :
        self.edges[i][2] # <<>> => Declared(self.edges[i][1])

\* An edge_style call has raised on a store that holds styled edges.
C8_Witness ==
    /\ last.op = "edge_style"
    /\ last.raised = GraphError
    /\ EdgeCount(self) > 0

\* C9: the final command of a call reads something other than what this
\* call produced only when the other caller has been at work in the same
\* directory, or this call's layout command failed.  The witness is the
\* race: a final command that reads the other call's document.
C9_ForeignOnlyByRace ==
    \A t \in Threads :
        call[t].pc = "returned" =>
            LET l == log[t]
                mine == IF call[t].mode = "neato" THEN "(laid out) " \o l[1].data
                        ELSE l[1].data
            IN  l[Len(l)].data # mine =>
                    \/ call[3 - t].pc # "idle"
                    \/ call[t].mode = "neato" /\ l[2].status = Failed

\* Caller 1 wrote the document of graph G, and its final command, with no
\* command of either caller failing, read the document of graph H.
C9_Witness ==
    /\ call[1].pc = "returned" /\ call[1].mode = "dot"
    /\ log[1][1].data = "digraph G {\n\n}\n"
    /\ log[1][2].data = "digraph H {\n\n}\n"
    /\ log[1][2].status = Succeeded
    /\ \A i \in DOMAIN log[2] : log[2][i].status = Succeeded

\* C10: in sequential use the file the final command of a call reads, when
\* it holds a document, was produced by this call: it is the document the
\* call saved, or the layout of that document.
C10_FinalInputIsFresh ==
    call[1].pc = "returned" =>
        LET l == log[1]
            mine == IF call[1].mode = "neato" THEN "(laid out) " \o l[1].data
                    ELSE l[1].data
        IN  l[Len(l)].data \notin {NoFile, ""} => l[Len(l)].data = mine

====
